---- MODULE Spec2Model ----
(***************************************************************************)
(* A model of csf/train.py: flag validation (layer_loss_weights), the      *)
(* hyperparameter schedules, and the unsupervised training loop with its   *)
(* checkpoint and summary bookkeeping.                                      *)
(*                                                                         *)
(* Strings are modelled as sequences of tokens: a token is one character   *)
(* (":", ".", "-", a digit, a letter) or a whole identifier such as        *)
(* "conv4_block5_out".  Floats are modelled as exact fractions [num, den]. *)
(* An optional integer flag (default None) is the empty set when unset and *)
(* the singleton {n} when set to n.                                        *)
(***************************************************************************)
EXTENDS Integers, Sequences, FiniteSets, TLC

VARIABLES
    FLAGS,              \* the command line flags (absl FLAGS)
    pc,                 \* position of the process: argv, rejected, main, loop, done, failed
    ds,                 \* number of batches the dataset stream still yields
    layers_and_weights, \* train_unsupervised: ordered (name, weight) pairs
    metrics,            \* total_loss_metric, layer_metrics: bound?, the steps each holds
    step,               \* tf.Variable step
    learning_rate,      \* tf.Variable learning_rate
    dropout_rate,       \* tf.Variable dropout_rate
    weights,            \* encoder weights and optimizer state: number of updates applied
    store,              \* checkpoints in FLAGS.out_dir, oldest first
    last_ckpt,          \* ckpt_manager.latest_checkpoint as read at start: {} is None
    log,                \* what the run did, in order: train, raise, save, flush events
    view,               \* _create_view: the scene given and the view returned
    loss,               \* _contrastive_loss: the similarities and the accuracy returned
    projection,         \* make_projection_figures: the arrays and what t-SNE received
    experiment          \* classification experiments: the samples fed to fit and evaluate

vars == <<FLAGS, pc, ds, layers_and_weights, metrics, step, learning_rate,
          dropout_rate, weights, store, last_ckpt, log,
          view, loss, projection, experiment>>

\* The state of the other programs of the repository, which training leaves alone.
others == <<view, loss, projection, experiment>>

(***************************************************************************)
(* Bounds of the model.                                                    *)
(***************************************************************************)
MaxTrainBatches == 2
MaxStream == 4
MaxFrequency == 2
MaxPrevStep == 1
MaxEntries == 2
MaxWarmup == 2

(***************************************************************************)
(* Exact fractions for Python floats.                                      *)
(***************************************************************************)
RECURSIVE GCD(_, _)
GCD(a, b) == IF b = 0 THEN a ELSE GCD(b, a % b)

Abs(n) == IF n < 0 THEN -n ELSE n

Frac(n, d) ==
    LET g == GCD(Abs(n), d)
    IN  [num |-> n \div g, den |-> d \div g]

FracLeq(a, b) == a.num * b.den <= b.num * a.den

FracLess(a, b) == a.num * b.den < b.num * a.den

FracMul(a, b) == Frac(a.num * b.num, a.den * b.den)

Zero == Frac(0, 1)

\* Python truthiness of an optional integer flag: None and 0 are falsy.
Truthy(opt) == opt # {} /\ opt # {0}

Value(opt) == CHOOSE n \in opt : TRUE

(***************************************************************************)
(* String helpers: str.split and float, as Python computes them.           *)
(***************************************************************************)
\* s.split(sep) for a one-token separator: the parts between the separators.
RECURSIVE split(_, _)
split(s, sep) ==
    IF \A i \in 1..Len(s) : s[i] # sep
    THEN <<s>>
    ELSE LET i == CHOOSE k \in 1..Len(s) :
                      s[k] = sep /\ \A j \in 1..(k - 1) : s[j] # sep
         IN  <<SubSeq(s, 1, i - 1)>> \o split(SubSeq(s, i + 1, Len(s)), sep)

DigitValue ==
    ("0" :> 0) @@ ("1" :> 1) @@ ("2" :> 2) @@ ("3" :> 3) @@ ("4" :> 4) @@
    ("5" :> 5) @@ ("6" :> 6) @@ ("7" :> 7) @@ ("8" :> 8) @@ ("9" :> 9)

IsDigits(s) == \A i \in 1..Len(s) : s[i] \in DOMAIN DigitValue

RECURSIVE DigitsToInt(_)
DigitsToInt(s) ==
    IF s = <<>> THEN 0
    ELSE 10 * DigitsToInt(SubSeq(s, 1, Len(s) - 1)) + DigitValue[s[Len(s)]]

RECURSIVE Pow10(_)
Pow10(n) == IF n = 0 THEN 1 ELSE 10 * Pow10(n - 1)

\* float(w) on decimal literals: an optional sign, digits, an optional point and
\* digits, at least one digit in all.  raised = TRUE is ValueError.
float(w) ==
    LET signed == Len(w) > 0 /\ w[1] \in {"-", "+"}
        body   == IF signed THEN Tail(w) ELSE w
        parts  == split(body, ".")
        int    == parts[1]
        frac   == IF Len(parts) >= 2 THEN parts[2] ELSE <<>>
        ok     == /\ Len(parts) <= 2
                  /\ IsDigits(int)
                  /\ IsDigits(frac)
                  /\ Len(int) + Len(frac) >= 1
        mag    == DigitsToInt(int \o frac)
        sgn    == IF signed /\ w[1] = "-" THEN -1 ELSE 1
    IN  IF ok
        THEN [raised |-> FALSE, value |-> Frac(sgn * mag, Pow10(Len(frac)))]
        ELSE [raised |-> TRUE, value |-> Zero]

(***************************************************************************)
(* Layer loss weights: parsing and validation.                             *)
(***************************************************************************)
\* csf.encoder.RESNET_REPRESENTATION_LAYERS: the encoder's named layers.
RESNET_REPRESENTATION_LAYERS ==
    {<<"conv4_block5_out">>, <<"conv5_block3_out">>}

\* result[name] = weight on an insertion-ordered dict of (name, weight) pairs.
DictSet(d, name, weight) ==
    IF \E i \in 1..Len(d) : d[i][1] = name
    THEN [i \in 1..Len(d) |-> IF d[i][1] = name THEN <<name, weight>> ELSE d[i]]
    ELSE Append(d, <<name, weight>>)

DictKeys(d) == {d[i][1] : i \in 1..Len(d)}

DictGet(d, name) == d[CHOOSE i \in 1..Len(d) : d[i][1] = name][2]

\* ParseValue without the assertion on the name.
ParseValueUnchecked(acc, value) ==
    LET parts == split(value, ":")
    IN  IF Len(parts) # 2
        THEN [raised |-> TRUE, result |-> acc.result]
        ELSE LET weight == float(parts[2])
             IN  IF weight.raised
                 THEN [raised |-> TRUE, result |-> acc.result]
                 ELSE [raised |-> FALSE,
                       result |-> DictSet(acc.result, parts[1], weight.value)]

\* The loop body of _parse_layer_loss_weights for one value, on the result so far.
ParseValue(acc, value) ==
    LET parts == split(value, ":")
    IN  IF Len(parts) # 2
        THEN [raised |-> TRUE, result |-> acc.result]        \* unpacking: ValueError
        ELSE LET name   == parts[1]
                 weight == float(parts[2])
             IN  IF name \notin RESNET_REPRESENTATION_LAYERS
                 THEN [raised |-> TRUE, result |-> acc.result]   \* AssertionError
                 ELSE IF weight.raised
                 THEN [raised |-> TRUE, result |-> acc.result]   \* ValueError
                 ELSE [raised |-> FALSE,
                       result |-> DictSet(acc.result, name, weight.value)]

RECURSIVE ParseFrom(_, _)
ParseFrom(acc, values) ==
    IF values = <<>> \/ acc.raised THEN acc
    ELSE ParseFrom(ParseValue(acc, Head(values)), Tail(values))

_parse_layer_loss_weights(values) ==
    ParseFrom([raised |-> FALSE, result |-> <<>>], values)

\* The flag validator: False on any exception of the parser.
_check_layer_loss_weights(values) == ~_parse_layer_loss_weights(values).raised

layer_loss_weights == _parse_layer_loss_weights(FLAGS.layer_loss_weights).result

(***************************************************************************)
(* Schedules.                                                              *)
(***************************************************************************)
\* csf.utils.optional_warmup(step, final_value, warmup_length): no warmup when
\* the length is unset or zero, else a linear ramp step / warmup_length up to
\* the final value.
optional_warmup(stp, final, warmup) ==
    IF ~Truthy(warmup) THEN final
    ELSE IF stp < Value(warmup) THEN FracMul(final, Frac(stp, Value(warmup)))
    ELSE final

\* _learning_rate of the step before.
_learning_rate_before(stp) ==
    optional_warmup(stp - 1, FLAGS.learning_rate,
                    FLAGS.learning_rate_warmup_batches)

\* _dropout_rate reading the learning rate's warmup length.
_dropout_rate_other_warmup(stp) ==
    optional_warmup(stp, FLAGS.band_dropout_rate,
                    FLAGS.learning_rate_warmup_batches)

_dropout_rate(stp) ==
    optional_warmup(stp, FLAGS.band_dropout_rate,
                    FLAGS.band_dropout_rate_warmup_batches)

_learning_rate(stp) ==
    optional_warmup(stp, FLAGS.learning_rate, FLAGS.learning_rate_warmup_batches)

(***************************************************************************)
(* Checkpoints and events.                                                 *)
(***************************************************************************)
\* What tf.train.Checkpoint holds (line 408): step, encoder and optimizer,
\* learning_rate, dropout_rate.
Snapshot(stp, w, lr, dr) ==
    [step |-> stp, weights |-> w, learning_rate |-> lr, dropout_rate |-> dr]

\* ckpt_manager.save(): write the snapshot, keep the newest max_checkpoints.
Save(st, ck) ==
    LET all == Append(st, ck)
    IN  IF Len(all) > FLAGS.max_checkpoints
        THEN SubSeq(all, Len(all) - FLAGS.max_checkpoints + 1, Len(all))
        ELSE all

\* ckpt_manager.latest_checkpoint: None ({}) on an empty store.
latest_checkpoint(st) == IF st = <<>> THEN {} ELSE {st[Len(st)]}

\* error: the exception of a raise event, "" otherwise.
Event(op, stp, w, n, error) ==
    [op |-> op, step |-> stp, weights |-> w, n |-> n, error |-> error]

\* FinalSave that saves nothing.
FinalSaveSkipped(st, lg, stp, w, lr, dr) == [store |-> st, log |-> lg]

\* Line 517-518: the save after the loop.
FinalSave(st, lg, stp, w, lr, dr) ==
    [store |-> Save(st, Snapshot(stp, w, lr, dr)),
     log   |-> Append(lg, Event("final_save", stp, w, 0, ""))]

\* Raise with the save after the loop in a finally clause.
RaiseThenSave(st, lg, stp, w, lr, dr, error) ==
    [pc |-> "failed", store |-> Save(st, Snapshot(stp, w, lr, dr)),
     log |-> Append(Append(lg, Event("raise", stp, w, 0, error)),
                    Event("final_save", stp, w, 0, ""))]

\* An exception inside the loop body: nothing catches it, it leaves
\* train_unsupervised and ends the process; lines 517-518 are not reached.
Raise(st, lg, stp, w, lr, dr, error) ==
    [pc |-> "failed", store |-> st,
     log |-> Append(lg, Event("raise", stp, w, 0, error))]

\* Line 477-479: FLAGS.summary_frequency and current_step % summary_frequency == 0
ShowSummaries(current_step) ==
    /\ FLAGS.summary_frequency # 0
    /\ current_step % FLAGS.summary_frequency = 0

\* CheckpointDue counting batches from 1.
CheckpointDueFromOne(current_step) ==
    /\ FLAGS.checkpoint_frequency # 0
    /\ (current_step + 1) % FLAGS.checkpoint_frequency = 0

\* Line 503: current_step % FLAGS.checkpoint_frequency == 0 (a frequency of 0
\* is a ZeroDivisionError, decided before this is evaluated).
CheckpointDue(current_step) ==
    /\ FLAGS.checkpoint_frequency # 0
    /\ current_step % FLAGS.checkpoint_frequency = 0

\* Line 513: the loop breaks.
Finished(current_step) == current_step >= FLAGS.train_batches

\* train_step's own exceptions: layer_metrics is bound only when summaries are
\* on (line 345), and is read at line 447 (NameError); with no layer the loss
\* is a constant and there is no gradient to apply at line 467 (ValueError).
TrainStepError(fault) ==
    IF ~metrics.defined THEN "NameError"
    ELSE IF layers_and_weights = <<>> THEN "ValueError"
    ELSE IF fault THEN "fault"
    ELSE ""

\* Lines 345-349: total_loss_metric and one (loss, accuracy) pair of Mean
\* metrics per layer, bound only when summaries are on.  A Mean is modelled
\* by the steps whose values it holds.
NewMetrics(law) ==
    IF FLAGS.summary_frequency # 0
    THEN [defined |-> TRUE, total |-> <<>>,
          layers |-> [i \in 1..Len(law) |-> [loss |-> <<>>, accuracy |-> <<>>]]]
    ELSE [defined |-> FALSE, total |-> <<>>, layers |-> <<>>]

\* Lines 458-464: train_step adds the step's values to every metric.
update_state(m, current_step) ==
    [m EXCEPT !.total = Append(@, current_step),
              !.layers = [i \in DOMAIN @ |->
                            [loss |-> Append(@[i].loss, current_step),
                             accuracy |-> Append(@[i].accuracy, current_step)]]]

\* write_metrics that resets the total loss only.
write_metrics_total_only(m) == [m EXCEPT !.total = <<>>]

\* Lines 351-377: write_metrics reports each mean and resets each metric.
write_metrics(m) ==
    [m EXCEPT !.total = <<>>,
              !.layers = [i \in DOMAIN @ |-> [loss |-> <<>>, accuracy |-> <<>>]]]

(***************************************************************************)
(* The program.                                                            *)
(***************************************************************************)
\* FLAGS(sys.argv): flag parsing runs the validators; a False validator is an
\* IllegalFlagValueError and train_unsupervised is never called.
ParseFlags ==
    /\ pc = "argv"
    /\ pc' = IF _check_layer_loss_weights(FLAGS.layer_loss_weights)
             THEN "main" ELSE "rejected"
    /\ UNCHANGED <<FLAGS, ds, layers_and_weights, metrics, step, learning_rate,
                   dropout_rate, weights, store, last_ckpt, log>>
    /\ UNCHANGED others

\* Start with the step counter at 0.
StartAtZero ==
    /\ pc = "main"
    /\ layers_and_weights' = layer_loss_weights
    /\ metrics' = NewMetrics(layer_loss_weights)
    /\ step' = 0
    /\ learning_rate' = _learning_rate(0)
    /\ dropout_rate' = _dropout_rate(0)
    /\ weights' = 0
    /\ last_ckpt' = latest_checkpoint(store)
    /\ pc' = "loop"
    /\ UNCHANGED <<FLAGS, ds, store, log>>
    /\ UNCHANGED others

\* train_unsupervised up to the loop (lines 329-471): build the objects.  The
\* latest checkpoint is looked up and logged; nothing is read back from it.
Start ==
    /\ pc = "main"
    /\ layers_and_weights' = layer_loss_weights
    /\ metrics' = NewMetrics(layer_loss_weights)
    /\ step' = -1
    /\ learning_rate' = _learning_rate(-1)
    /\ dropout_rate' = _dropout_rate(-1)
    /\ weights' = 0
    /\ last_ckpt' = latest_checkpoint(store)
    /\ pc' = "loop"
    /\ UNCHANGED <<FLAGS, ds, store, log>>
    /\ UNCHANGED others

\* One pass of `for batch in ds` (lines 473-515), and the save after the loop
\* when the pass breaks out of it.  fault: the training step raises for a
\* reason of its own (a corrupt batch, a numeric error).
Iteration(fault) ==
    /\ pc = "loop"
    /\ ds > 0
    /\ LET current_step == step + 1
           show_summaries == ShowSummaries(current_step)
           lr == IF Truthy(FLAGS.learning_rate_warmup_batches)
                 THEN _learning_rate(current_step) ELSE learning_rate
           dr == IF Truthy(FLAGS.band_dropout_rate_warmup_batches)
                 THEN _dropout_rate(current_step) ELSE dropout_rate
           error == TrainStepError(fault)
           \* train_step: one update of the weights, one value in each metric
           w1   == weights + 1
           m1   == update_state(metrics, current_step)
           log1 == Append(log, Event("train", current_step, w1, 0, ""))
           saves == CheckpointDue(current_step)
           store1 == IF saves THEN Save(store, Snapshot(current_step, w1, lr, dr))
                     ELSE store
           log2 == IF saves
                   THEN Append(log1, Event("save", current_step, w1, 0, ""))
                   ELSE log1
           \* write_metrics: report the means and reset the accumulators
           m2   == IF show_summaries THEN write_metrics(m1) ELSE m1
           log3 == IF show_summaries
                   THEN Append(log2, Event("flush", current_step, w1,
                                           Len(m1.total), ""))
                   ELSE log2
           final == FinalSave(store1, log3, current_step, w1, lr, dr)
           failed == IF error # ""
                     THEN Raise(store, log, current_step, weights, lr, dr, error)
                     ELSE Raise(store, log1, current_step, w1, lr, dr,
                                "ZeroDivisionError")
       IN  /\ ds' = ds - 1
           /\ step' = current_step
           /\ learning_rate' = lr
           /\ dropout_rate' = dr
           /\ IF error # ""
              THEN /\ pc' = failed.pc
                   /\ store' = failed.store
                   /\ log' = failed.log
                   /\ UNCHANGED <<weights, metrics>>
              ELSE IF FLAGS.checkpoint_frequency = 0
              THEN /\ pc' = failed.pc
                   /\ store' = failed.store
                   /\ log' = failed.log
                   /\ weights' = w1
                   /\ metrics' = m1
              ELSE /\ weights' = w1
                   /\ metrics' = m2
                   /\ pc' = IF Finished(current_step) THEN "done" ELSE "loop"
                   /\ store' = IF Finished(current_step) THEN final.store ELSE store1
                   /\ log' = IF Finished(current_step) THEN final.log ELSE log3
    /\ UNCHANGED <<FLAGS, layers_and_weights, last_ckpt>>
    /\ UNCHANGED others

\* The stream ends (line 473 yields nothing more): lines 517-518.
Exhausted ==
    /\ pc = "loop"
    /\ ds = 0
    /\ LET final == FinalSave(store, log, step, weights, learning_rate, dropout_rate)
       IN  /\ store' = final.store
           /\ log' = final.log
    /\ pc' = "done"
    /\ UNCHANGED <<FLAGS, ds, layers_and_weights, metrics, step, learning_rate,
                   dropout_rate, weights, last_ckpt>>
    /\ UNCHANGED others

Train == \E fault \in BOOLEAN : Iteration(fault)

Next == ParseFlags \/ Start \/ Train \/ Exhausted

(***************************************************************************)
(* Inputs.  The command lines explored are three families: the loop        *)
(* settings with a few weight lists, every weight list with a short run,   *)
(* and the schedule settings with a run long enough to pass every warmup.  *)
(***************************************************************************)
C4 == "conv4_block5_out"

C5 == "conv5_block3_out"

\* Entries of --layer_loss_weights, well-formed and not.
EntryPool ==
    {<<C4, ":", "0", ".", "5">>,    \* conv4_block5_out:0.5
     <<C5, ":", "1", ".", "0">>,    \* conv5_block3_out:1.0
     <<C4, ":", "2">>,              \* the same name again, another weight
     <<C5, ":", "0">>,              \* weight 0
     <<C4, ":", "-", "1">>,         \* a negative weight
     <<"fc", ":", "1">>,            \* a name that is no representation layer
     <<C4, "x", ":", "1">>,         \* a known name with a suffix
     <<C4, "0", ".", "5">>,         \* no colon
     <<C4, ":", "1", ":", "5">>,    \* two colons
     <<C4, ":", "x">>,              \* a weight that is no number
     <<C4, ":">>,                   \* no weight
     <<":", "1">>}                  \* no name

Lists(pool, n) == UNION {[1..k -> pool] : k \in 0..n}

TwoLayers == <<<<C4, ":", "0", ".", "5">>, <<C5, ":", "1", ".", "0">>>>

LoopLists == {<<>>, <<<<C4, ":", "0", ".", "5">>>>, TwoLayers, <<<<"fc", ":", "1">>>>}

Optional(n) == {{}} \cup {{k} : k \in 0..n}

FinalRates == {Frac(0, 1), Frac(1, 2), Frac(3, 1)}

Half == Frac(1, 2)

\* The default of --max_checkpoints.
DefaultMaxCheckpoints == 100

FlagsOf(llw, tb, sf, cf, lr, lrw, dr, drw) ==
    [layer_loss_weights |-> llw, train_batches |-> tb, summary_frequency |-> sf,
     checkpoint_frequency |-> cf, max_checkpoints |-> DefaultMaxCheckpoints,
     learning_rate |-> lr, learning_rate_warmup_batches |-> lrw,
     band_dropout_rate |-> dr, band_dropout_rate_warmup_batches |-> drw]

LoopFlags ==
    {FlagsOf(llw, tb, sf, cf, Half, {}, Half, {}) :
        llw \in LoopLists, tb \in 0..MaxTrainBatches,
        sf \in 0..MaxFrequency, cf \in 0..MaxFrequency}

ListFlags ==
    {FlagsOf(llw, 1, 1, 1, Half, {}, Half, {}) : llw \in Lists(EntryPool, MaxEntries)}

ScheduleFlags ==
    {FlagsOf(TwoLayers, MaxWarmup + 1, 1, 1, lr, lrw, dr, drw) :
        lr \in FinalRates, lrw \in Optional(MaxWarmup),
        dr \in FinalRates, drw \in Optional(MaxWarmup)}

\* The checkpoint store as an earlier run with flags f left it: empty, or
\* holding the snapshot that run saved at step s (s = -1: it saw no batch).
\* The run that saved at step s had applied s + 1 updates.
EarlierStores(f) ==
    {<<>>} \cup
    {<<Snapshot(s, s + 1,
                optional_warmup(s, f.learning_rate, f.learning_rate_warmup_batches),
                optional_warmup(s, f.band_dropout_rate,
                                f.band_dropout_rate_warmup_batches))>> :
        s \in -1..MaxPrevStep}

\* No other program of the repository is running.
OthersIdle ==
    /\ view = [phase |-> "idle"]
    /\ loss = [phase |-> "idle"]
    /\ projection = [phase |-> "idle"]
    /\ experiment = [phase |-> "idle"]

Init ==
    /\ \/ FLAGS \in LoopFlags /\ ds \in 0..MaxStream
       \/ FLAGS \in ListFlags /\ ds \in 1..2
       \/ FLAGS \in ScheduleFlags /\ ds = MaxWarmup + 2
    /\ store \in EarlierStores(FLAGS)
    /\ pc = "argv"
    /\ layers_and_weights = <<>>
    /\ metrics = [defined |-> FALSE, total |-> <<>>, layers |-> <<>>]
    /\ step = -1
    /\ learning_rate = Zero
    /\ dropout_rate = Zero
    /\ weights = 0
    /\ last_ckpt = {}
    /\ log = <<>>
    /\ OthersIdle

Spec == Init /\ [][Next]_vars

(***************************************************************************)
(* The view generator, _create_view.  A tensor is its shape, the offset of *)
(* the crop that produced it, and the augmentations applied to it.         *)
(***************************************************************************)
MaxBatch == 2
MaxTile == 3
MaxBands == 2

\* The training run's variables while another entry point is exercised.
TrainingIdle ==
    /\ pc = "idle" /\ ds = 0 /\ layers_and_weights = <<>>
    /\ metrics = [defined |-> FALSE, total |-> <<>>, layers |-> <<>>]
    /\ step = -1 /\ learning_rate = Zero /\ dropout_rate = Zero
    /\ weights = 0 /\ store = <<>> /\ last_ckpt = {} /\ log = <<>>

training == <<pc, ds, layers_and_weights, metrics, step, learning_rate,
              dropout_rate, weights, store, last_ckpt, log>>

Tensor(shape) == [shape |-> shape, offset |-> <<0, 0, 0, 0>>, ops |-> <<>>]

\* input_shape with the tile size of the data.
input_shape_of_data ==
    <<FLAGS.batch_size, FLAGS.data_tilesize, FLAGS.data_tilesize, FLAGS.n_bands>>

\* Lines 148-149.
input_shape ==
    <<FLAGS.batch_size, FLAGS.model_tilesize, FLAGS.model_tilesize, FLAGS.n_bands>>

\* tf.image.random_crop: the offsets a crop of `size` can have; none when
\* `size` exceeds the value in some dimension, and the op then fails.
CropOffsets(value, size) ==
    {o \in [1..4 -> 0..MaxTile] :
        \A i \in 1..4 : o[i] + size[i] <= value.shape[i]}

random_crop(value, size, o) ==
    [shape |-> size, offset |-> <<o[1], o[2], o[3], o[4]>>,
     ops |-> Append(value.ops, "crop")]

\* tf.image.random_brightness, tf.image.random_contrast: elementwise.
random_brightness(image) == [image EXCEPT !.ops = Append(@, "brightness")]

random_contrast(image) == [image EXCEPT !.ops = Append(@, "contrast")]

\* tf.nn.dropout: elementwise, the noise broadcast from noise_shape.
Broadcasts(noise_shape, shape) ==
    \A i \in 1..4 : noise_shape[i] = 1 \/ noise_shape[i] = shape[i]

dropout(x, noise_shape) == [x EXCEPT !.ops = Append(@, "band_dropout")]

\* Lines 196-216, after the crop.  An unset delta (None) and 0.0 are both
\* falsy and both stand as Zero.
Augment(scene) ==
    LET s1 == IF FLAGS.random_brightness_delta # Zero
              THEN random_brightness(scene) ELSE scene
        s2 == IF FLAGS.random_contrast_delta # Zero
              THEN random_contrast(s1) ELSE s1
    IN  dropout(s2, <<FLAGS.batch_size, 1, 1, FLAGS.n_bands>>)

\* _create_view(scene, step, dropout_rate, seed), lines 166-216: one call.
CreateView ==
    /\ view.phase = "call"
    /\ LET scene == view.scene
           crop  == FLAGS.model_tilesize # FLAGS.data_tilesize
           noise == <<FLAGS.batch_size, 1, 1, FLAGS.n_bands>>
       IN  \/ /\ crop
              /\ CropOffsets(scene, input_shape) = {}
              /\ view' = [view EXCEPT !.phase = "raised",
                                      !.error = "InvalidArgumentError"]
           \/ /\ crop
              /\ \E o \in CropOffsets(scene, input_shape) :
                    /\ Broadcasts(noise, input_shape)
                    /\ view' = [view EXCEPT
                                  !.phase = "returned",
                                  !.result = Augment(random_crop(scene, input_shape, o))]
           \/ /\ ~crop
              /\ Broadcasts(noise, scene.shape)
              /\ view' = [view EXCEPT !.phase = "returned",
                                      !.result = Augment(scene)]
    /\ UNCHANGED <<FLAGS, loss, projection, experiment>>
    /\ UNCHANGED training

ViewFlags ==
    [batch_size : 1..MaxBatch,
     model_tilesize : 1..MaxTile,
     data_tilesize : 1..MaxTile,
     n_bands : 1..MaxBands,
     random_brightness_delta : {Zero, Half},
     random_contrast_delta : {Zero, Half}]

\* A batch as the data pipeline delivers it: batch_size scenes of
\* data_tilesize x data_tilesize pixels and n_bands bands.
InitView ==
    /\ FLAGS \in ViewFlags
    /\ \E rate \in {Zero, Half} :
          view = [phase |-> "call", scene |-> Tensor(input_shape_of_data),
                  dropout_rate |-> rate, result |-> Tensor(<<0, 0, 0, 0>>),
                  error |-> ""]
    /\ loss = [phase |-> "idle"]
    /\ projection = [phase |-> "idle"]
    /\ experiment = [phase |-> "idle"]
    /\ TrainingIdle

NextView == CreateView

SpecView == InitView /\ [][NextView]_vars

(***************************************************************************)
(* The contrastive loss, _contrastive_loss: its accuracy output.  Rows and *)
(* columns are numbered from 0, as tf.range numbers them.                  *)
(***************************************************************************)
MaxActivation == 2

FracDiv(a, b) == Frac(a.num * b.den, a.den * b.num)

\* Lines 247-249 and 257-259: similarities[i][j] is the dot product of row i
\* of flat_1 and row j of flat_2, divided by the temperature.
matmul_transpose_b(flat_1, flat_2) ==
    [i \in DOMAIN flat_1 |-> [j \in DOMAIN flat_2 |-> flat_1[i] * flat_2[j]]]

divide(similarities, temperature) ==
    [i \in DOMAIN similarities |->
        [j \in DOMAIN similarities[i] |->
            FracDiv(Frac(similarities[i][j], 1), temperature)]]

\* The rows at which column j takes its maximum.
MaxRows(similarities, j) ==
    {i \in DOMAIN similarities :
        \A k \in DOMAIN similarities :
            FracLeq(similarities[k][j], similarities[i][j])}

\* The columns at which row i takes its maximum.
MaxColumns(similarities, i) ==
    {j \in DOMAIN similarities[i] :
        \A k \in DOMAIN similarities[i] :
            FracLeq(similarities[i][k], similarities[i][j])}

\* tf.argmax along axis 1: one column index per row.
argmax_axis_1(similarities) ==
    {p \in [DOMAIN similarities -> DOMAIN similarities] :
        \A i \in DOMAIN p : p[i] \in MaxColumns(similarities, i)}

\* Line 283, tf.argmax(similarities): the axis defaults to 0, one row index
\* per column.  Which of several equal maxima is returned is not specified.
argmax(similarities) ==
    {p \in [DOMAIN similarities -> DOMAIN similarities] :
        \A j \in DOMAIN p : p[j] \in MaxRows(similarities, j)}

\* Lines 280-287: the share of positions where the prediction is the position.
Accuracy(predictions) ==
    Frac(Cardinality({i \in DOMAIN predictions : predictions[i] = i}),
         Cardinality(DOMAIN predictions))

Indices == 0..(FLAGS.batch_size - 1)

\* _contrastive_loss(representation_1, representation_2), lines 219-312.
ContrastiveLoss ==
    /\ loss.phase = "call"
    /\ LET similarities == divide(matmul_transpose_b(loss.flat_1, loss.flat_2),
                                  FLAGS.softmax_temperature)
       IN  \E predictions \in argmax(similarities) :
              loss' = [loss EXCEPT !.phase = "returned",
                                   !.similarities = similarities,
                                   !.predictions = predictions,
                                   !.batch_accuracy = Accuracy(predictions)]
    /\ UNCHANGED <<FLAGS, view, projection, experiment>>
    /\ UNCHANGED training

Activations == (0 - MaxActivation)..MaxActivation

LossFlags ==
    [batch_size : 1..MaxBatch,
     softmax_temperature : {Frac(1, 10)}]

\* Representations of one feature per scene, flattened to (batch_size, 1).
InitLoss ==
    /\ FLAGS \in LossFlags
    /\ \E flat_1 \in [Indices -> Activations], flat_2 \in [Indices -> Activations] :
          loss = [phase |-> "call", flat_1 |-> flat_1, flat_2 |-> flat_2,
                  similarities |-> <<>>, predictions |-> <<>>,
                  batch_accuracy |-> Zero]
    /\ view = [phase |-> "idle"]
    /\ projection = [phase |-> "idle"]
    /\ experiment = [phase |-> "idle"]
    /\ TrainingIdle

NextLoss == ContrastiveLoss

SpecLoss == InitLoss /\ [][NextLoss]_vars

(***************************************************************************)
(* The projection figures, make_projection_figures.  An array is its shape *)
(* (rows, columns) and the transforms applied to it.                       *)
(***************************************************************************)
MaxPoints == 4
MaxWidth == 3

Array(rows, columns) == [shape |-> <<rows, columns>>, ops |-> <<>>]

Smaller(a, b) == IF a <= b THEN a ELSE b

\* sklearn's PCA(n_components=k).fit_transform(X) raises ValueError unless
\* 0 <= k <= min(rows, columns); otherwise it returns rows x k.
PCA_fits(n_components, X) ==
    /\ 0 <= n_components
    /\ n_components <= Smaller(X.shape[1], X.shape[2])

PCA_fit_transform(n_components, X) ==
    [shape |-> <<X.shape[1], n_components>>, ops |-> Append(X.ops, "PCA")]

\* Lines 101-102: the number of points is rounded down to whole batches.
n_points == (FLAGS.n_points \div FLAGS.batch_size) * FLAGS.batch_size

Raised(stage, error) ==
    [projection EXCEPT !.phase = "raised", !.stage = stage, !.error = error]

\* Lines 180-209, from the first PCA on, with the representations at hand.
Plot(representations) ==
    IF ~PCA_fits(2, representations)
    THEN Raised("pca", "ValueError")
    ELSE IF FLAGS.pca_preprocess_dims # 0
            /\ ~PCA_fits(FLAGS.pca_preprocess_dims, representations)
    THEN [Raised("pre_tsne_pca", "ValueError") EXCEPT
             !.saved = TRUE,
             !.representations = representations,
             !.pca_projection = PCA_fit_transform(2, representations)]
    ELSE [projection EXCEPT
             !.phase = "returned",
             !.stage = "done",
             !.saved = TRUE,
             !.representations = representations,
             !.pca_projection = PCA_fit_transform(2, representations),
             !.tsne_input =
                 IF FLAGS.pca_preprocess_dims # 0
                 THEN PCA_fit_transform(FLAGS.pca_preprocess_dims, representations)
                 ELSE representations]

\* make_projection_figures(), lines 93-209: one call.
MakeProjectionFigures ==
    /\ projection.phase = "call"
    /\ LET representations == Array(n_points, projection.representation_size)
       IN  projection' =
              IF ~projection.saved
              THEN IF ~FLAGS.model_checkpoint
                   THEN Raised("check", "ValueError")
                   ELSE IF ~FLAGS.plot
                   THEN [projection EXCEPT !.phase = "returned",
                                           !.stage = "encode",
                                           !.saved = TRUE,
                                           !.representations = representations]
                   ELSE Plot(representations)
              ELSE Plot(representations)
    /\ UNCHANGED <<FLAGS, view, loss, experiment>>
    /\ UNCHANGED training

ProjectionFlags ==
    [n_points : 1..MaxPoints,
     batch_size : 1..MaxBatch,
     pca_preprocess_dims : (0 - 1)..MaxWidth,
     plot : BOOLEAN,
     model_checkpoint : BOOLEAN]

\* out_dir holds saved representations of an earlier call with the same
\* flags, or none.
InitProjection ==
    /\ FLAGS \in ProjectionFlags
    /\ \E saved \in BOOLEAN, representation_size \in 1..MaxWidth :
          projection = [phase |-> "call", stage |-> "start", saved |-> saved,
                        representation_size |-> representation_size,
                        representations |-> Array(0, 0),
                        pca_projection |-> Array(0, 0),
                        tsne_input |-> Array(0, 0),
                        error |-> ""]
    /\ view = [phase |-> "idle"]
    /\ loss = [phase |-> "idle"]
    /\ experiment = [phase |-> "idle"]
    /\ TrainingIdle

NextProjection == MakeProjectionFigures

SpecProjection == InitProjection /\ [][NextProjection]_vars

(***************************************************************************)
(* The classification experiments.  The dataset is the sequence of its     *)
(* samples 1..N in file order; a dataset fed to fit or evaluate is known   *)
(* by the set of samples that reach the model.                             *)
(***************************************************************************)
MaxSamples == 8
Epochs == 64

Range(q) == {q[i] : i \in 1..Len(q)}

\* tf.data.Dataset.take, skip, and batch(drop_remainder=True) flattened.
take(d, n) == SubSeq(d, 1, Smaller(n, Len(d)))

skip(d, n) == SubSeq(d, Smaller(n, Len(d)) + 1, Len(d))

batch(d, batch_size) == SubSeq(d, 1, (Len(d) \div batch_size) * batch_size)

\* int(n * fraction) for a fraction that is exact.
int(n, fraction) == (n * fraction.num) \div fraction.den

\* What `steps` batches of d.batch(batch_size, drop_remainder=True).repeat()
\* deliver: every pass delivers the same batches in the same order.
FedInOrder(d, batch_size, steps) ==
    LET batched == batch(d, batch_size)
    IN  Range(SubSeq(batched, 1, Smaller(steps * batch_size, Len(batched))))

\* What `steps` batches of d.shuffle(buffer_size).batch(batch_size,
\* drop_remainder=True).repeat() can deliver.  A pass delivers every sample
\* but the last Len(d) % batch_size the shuffle emits, which can be any; a
\* part of a pass delivers samples from the front of d as far as the buffer
\* has read.
FedShuffled(d, buffer_size, batch_size, steps) ==
    LET per_pass == Len(d) \div batch_size
        dropped  == Len(d) - per_pass * batch_size
    IN  IF steps = 0 \/ per_pass = 0 THEN {{}}
        ELSE IF steps >= per_pass
        THEN {Range(d) \ D : D \in {X \in SUBSET Range(d) : Cardinality(X) <= dropped}}
        ELSE {X \in SUBSET Range(take(d, buffer_size + steps * batch_size)) :
                 Cardinality(X) = steps * batch_size}

\* model.fit and model.evaluate on the three datasets: the samples that reach
\* training, validation and testing.  shuffle rejects an empty buffer.
FitEvaluate(dataset, test_dataset, val_dataset, n_samples, loop_value, rest) ==
    LET n_train_samples == n_samples[1]
        n_test_samples == n_samples[2]
        n_val_samples == n_samples[3]
    IN
    IF n_train_samples = 0
    THEN experiment' = [experiment EXCEPT !.phase = "raised",
                                          !.error = "InvalidArgumentError",
                                          !.iteration = loop_value]
    ELSE \E fed \in FedShuffled(dataset, n_train_samples, FLAGS.batch_size,
                               Epochs * (n_train_samples \div FLAGS.batch_size)) :
            experiment' =
               [experiment EXCEPT
                  !.phase = IF rest = <<>> THEN "returned" ELSE "loop",
                  !.todo = rest,
                  !.iteration = loop_value,
                  !.train = fed,
                  !.val = FedInOrder(val_dataset, FLAGS.batch_size,
                                     n_val_samples \div FLAGS.batch_size),
                  !.test = FedInOrder(test_dataset, FLAGS.batch_size,
                                      n_test_samples \div FLAGS.batch_size)]

\* One pass of the loop of degrading_inputs_experiment (lines 60-122).
DegradingInputsExperiment ==
    /\ experiment.phase \in {"call", "loop"}
    /\ experiment.function = "degrading_inputs_experiment"
    /\ LET N == Len(experiment.dataset)
           n_train_samples == int(N, FLAGS.train_fraction)
           n_test_samples == int(N, FLAGS.test_fraction)
           n_val_samples == int(N, FLAGS.val_fraction)
           dataset == experiment.dataset
           test_dataset == take(dataset, n_test_samples)
           val_dataset == take(dataset, n_val_samples)
       IN  FitEvaluate(dataset, test_dataset, val_dataset,
                       <<n_train_samples, n_test_samples, n_val_samples>>,
                       Head(experiment.todo), Tail(experiment.todo))
    /\ UNCHANGED <<FLAGS, view, loss, projection>>
    /\ UNCHANGED training

\* One pass of the loop of degrading_dataset_experiment (lines 125-190).
DegradingDatasetExperiment ==
    /\ experiment.phase \in {"call", "loop"}
    /\ experiment.function = "degrading_dataset_experiment"
    /\ LET n_samples_keep == Head(experiment.todo)
           n_train_samples == int(n_samples_keep, FLAGS.train_fraction)
           n_test_samples == int(n_samples_keep, FLAGS.test_fraction)
           n_val_samples == int(n_samples_keep, FLAGS.val_fraction)
           dataset == experiment.dataset
           test_dataset == take(skip(dataset, n_train_samples), n_test_samples)
           val_dataset == take(skip(dataset, n_train_samples + n_test_samples),
                               n_val_samples)
       IN  FitEvaluate(dataset, test_dataset, val_dataset,
                       <<n_train_samples, n_test_samples, n_val_samples>>,
                       n_samples_keep, Tail(experiment.todo))
    /\ UNCHANGED <<FLAGS, view, loss, projection>>
    /\ UNCHANGED training

\* train_fraction, test_fraction, val_fraction.
Fractions ==
    {<<Frac(8, 10), Frac(1, 10), Frac(1, 10)>>,
     <<Frac(1, 2), Frac(1, 4), Frac(1, 4)>>,
     <<Frac(1, 3), Frac(1, 3), Frac(1, 3)>>}

ExperimentFlags ==
    {[batch_size |-> b, train_fraction |-> f[1], test_fraction |-> f[2],
      val_fraction |-> f[3]] : b \in 1..MaxBatch, f \in Fractions}

\* range(gf.n_bands(), 0, -1)
BandsDown(n) == [i \in 1..n |-> n + 1 - i]

\* The sample counts kept, line 127, in thousands (500 and 250 as 1).
SamplesKeep == <<8, 6, 4, 2, 1>>

InitExperiment ==
    /\ FLAGS \in ExperimentFlags
    /\ \E N \in 1..MaxSamples :
          \E call \in {<<"degrading_inputs_experiment", BandsDown(n)>> :
                          n \in 1..MaxBands}
                      \cup {<<"degrading_dataset_experiment", SamplesKeep>>} :
             experiment = [phase |-> "call", function |-> call[1],
                           todo |-> call[2], dataset |-> [i \in 1..N |-> i],
                           iteration |-> 0, train |-> {}, val |-> {},
                           test |-> {}, error |-> ""]
    /\ view = [phase |-> "idle"]
    /\ loss = [phase |-> "idle"]
    /\ projection = [phase |-> "idle"]
    /\ TrainingIdle

NextExperiment == DegradingInputsExperiment \/ DegradingDatasetExperiment

SpecExperiment == InitExperiment /\ [][NextExperiment]_vars

(***************************************************************************)
(* Properties.                                                             *)
(***************************************************************************)
Last(q) == q[Len(q)]

Min(a, b) == IF a <= b THEN a ELSE b

Started == pc \in {"loop", "done", "failed"}

Count(lg, ops) == Cardinality({i \in 1..Len(lg) : lg[i].op \in ops})

\* The positions of the training steps attempted (completed or raised in
\* train_step itself), in order.
Attempts == {i \in 1..Len(log) :
                \/ log[i].op = "train"
                \/ log[i].op = "raise" /\ log[i].error # "ZeroDivisionError"}

\* Batches the stream held when the loop began: those left and those consumed.
StreamLength == ds + step + 1

\* A configuration that fails for no reason of its own: some layer to train
\* on, summaries on, a checkpoint frequency that divides.
Usable ==
    /\ Started
    /\ layers_and_weights # <<>>
    /\ FLAGS.summary_frequency # 0
    /\ FLAGS.checkpoint_frequency # 0

\* C1: when the store holds a checkpoint saved at step s as the run starts,
\* the training state (step, weights, schedule variables) is that of the
\* checkpoint before the loop begins and the first iteration executes step
\* s + 1; with no checkpoint the run begins from step -1.
C1_RestoresLatestCheckpoint ==
    Started /\ Usable =>
        /\ last_ckpt = {} /\ log = <<>> /\ pc = "loop" => step = -1
        /\ \A c \in last_ckpt :
              /\ log = <<>> /\ pc = "loop" =>
                    /\ step = c.step
                    /\ weights = c.weights
                    /\ learning_rate = c.learning_rate
                    /\ dropout_rate = c.dropout_rate
              /\ Attempts # {} =>
                    log[CHOOSE i \in Attempts : \A j \in Attempts : i <= j].step
                        = c.step + 1

\* C2: a fresh run whose stream yields at least train_batches batches
\* (train_batches >= 1) executes exactly train_batches training steps and
\* then finishes.
C2_TrainsExactlyTrainBatches ==
    (/\ pc = "done"
     /\ Usable
     /\ last_ckpt = {}
     /\ FLAGS.train_batches >= 1
     /\ StreamLength >= FLAGS.train_batches)
        => Count(log, {"train"}) = FLAGS.train_batches

\* C3: whenever the loop ends normally (step reached train_batches, or the
\* stream ran out first, an empty stream included) the run does not fail and
\* one final checkpoint save follows the last iteration: the run ends done,
\* the last thing it did is the one final save, of the state it ended in; a
\* run fails only by an exception inside an iteration, and a run still in the
\* loop has neither reached train_batches nor been refused a batch.
C3_FinalSaveOnNormalEnd ==
    /\ pc = "done" =>
          /\ log # <<>>
          /\ Last(log) = Event("final_save", step, weights, 0, "")
          /\ Count(log, {"final_save"}) = 1
          /\ store # <<>>
          /\ Last(store) = Snapshot(step, weights, learning_rate, dropout_rate)
          /\ step >= FLAGS.train_batches \/ ds = 0
    /\ pc = "failed" => log # <<>> /\ Last(log).op = "raise"
    /\ pc = "loop" => step < FLAGS.train_batches /\ Count(log, {"final_save"}) = 0

\* C3 witness: the stream ran out before step reached train_batches, after at
\* least one training step.
C3_Witness ==
    /\ pc = "done"
    /\ step >= 0
    /\ step < FLAGS.train_batches
    /\ ds = 0

\* C4: in the loop, the iteration for step s persists a checkpoint if and
\* only if s is a multiple of checkpoint_frequency, after the training step of
\* the same iteration: the snapshot carries step s and the weights as updated
\* by step s (s + 1 updates in all).  A save inside the loop directly follows
\* the training step of its step.
C4_CheckpointCadence ==
    /\ \A i \in 1..Len(log) :
          log[i].op = "train" =>
              LET s == log[i].step
                  saved == i < Len(log) /\ log[i + 1].op = "save"
                  multiple == \E k \in 0..s :
                                  k * FLAGS.checkpoint_frequency = s
                                  /\ FLAGS.checkpoint_frequency # 0
              IN  /\ saved <=> multiple
                  /\ saved =>
                        /\ log[i + 1].step = s
                        /\ log[i + 1].weights = s + 1
                        /\ \E k \in 1..Len(store) :
                              store[k].step = s /\ store[k].weights = s + 1
                  /\ log[i].weights = s + 1
    /\ \A i \in 1..Len(log) :
          log[i].op = "save" =>
              i > 1 /\ log[i - 1].op = "train" /\ log[i - 1].step = log[i].step

\* C4 witness: a run that saved at one step and did not at a later one.
C4_Witness ==
    \E i, j \in 1..Len(log) :
        /\ i < j
        /\ log[i].op = "save"
        /\ log[j].op = "train"
        /\ j < Len(log)
        /\ log[j + 1].op # "save"
        /\ log[j + 1].op # "raise"

\* C5: with summary_frequency = 0 summaries are disabled and nothing else
\* changes: no metric record is flushed and the run raises no error for it.
C5_SummaryFrequencyZeroDisables ==
    (/\ FLAGS.summary_frequency = 0
     /\ Started
     /\ layers_and_weights # <<>>
     /\ FLAGS.checkpoint_frequency # 0)
        => /\ \A i \in 1..Len(log) :
                 log[i].op # "flush" /\ log[i].error \in {"", "fault"}
           /\ pc = "done" =>
                 Count(log, {"train"}) = Min(StreamLength, FLAGS.train_batches + 1)

\* C6: when the training step of an iteration raises, the run aborts: the
\* exception is the last thing the run does (no later training step, no retry
\* of the batch, no cadence save, no final save, no flush), the step that
\* failed is not among the steps trained, and nothing was saved for it.
C6_TrainStepExceptionAborts ==
    \A i \in 1..Len(log) :
        log[i].op = "raise" =>
            /\ i = Len(log)
            /\ pc = "failed"
            /\ step = log[i].step
            /\ Count(log, {"final_save"}) = 0
            /\ log[i].error # "ZeroDivisionError" =>
                  /\ \A j \in 1..Len(log) :
                        log[j].op \in {"train", "save", "flush"}
                            => log[j].step < log[i].step
                  /\ \A k \in 1..Len(store) :
                        store[k].step = log[i].step => {store[k]} = last_ckpt
                  /\ weights = log[i].step

\* C6 witness: a faulty batch after a training step that was saved.
C6_Witness ==
    /\ pc = "failed"
    /\ Last(log).error = "fault"
    /\ Count(log, {"save"}) >= 1
    /\ ds > 0

\* The decimal numerals among the weights tried, and the numbers they denote.
Numerals ==
    (<<"0", ".", "5">> :> Frac(1, 2)) @@ (<<"1", ".", "0">> :> Frac(1, 1)) @@
    (<<"2">> :> Frac(2, 1)) @@ (<<"0">> :> Frac(0, 1)) @@
    (<<"-", "1">> :> Frac(-1, 1)) @@ (<<"1">> :> Frac(1, 1))

\* An entry of the form name:float with a known name.
IsEntry(e) ==
    \E name \in RESNET_REPRESENTATION_LAYERS, w \in DOMAIN Numerals :
        e = name \o <<":">> \o w

EntryName(e) ==
    CHOOSE name \in RESNET_REPRESENTATION_LAYERS :
        \E w \in DOMAIN Numerals : e = name \o <<":">> \o w

EntryWeight(e) ==
    Numerals[CHOOSE w \in DOMAIN Numerals :
                \E name \in RESNET_REPRESENTATION_LAYERS : e = name \o <<":">> \o w]

\* C7: validation rejects, when the flags are parsed and before any training
\* step, every list with an entry that is not name:float for a known name
\* (unknown name, no colon, several colons, a weight that is no number); a
\* list of well-formed entries with known names is accepted and parses to
\* the mapping name -> weight (the last weight given for a name).
C7_ValidationRejectsMalformed ==
    pc # "argv" =>
        LET values == FLAGS.layer_loss_weights
            parsed == _parse_layer_loss_weights(values)
        IN  /\ (\E i \in 1..Len(values) : ~IsEntry(values[i])) =>
                  /\ pc = "rejected"
                  /\ log = <<>>
                  /\ step = -1
                  /\ weights = 0
            /\ (\A i \in 1..Len(values) : IsEntry(values[i])) =>
                  /\ pc # "rejected"
                  /\ ~parsed.raised
                  /\ DictKeys(parsed.result)
                        = {EntryName(values[i]) : i \in 1..Len(values)}
                  /\ \A i \in 1..Len(values) :
                        (\A j \in (i + 1)..Len(values) :
                            EntryName(values[j]) # EntryName(values[i]))
                        => DictGet(parsed.result, EntryName(values[i]))
                              = EntryWeight(values[i])
                  /\ Started => layers_and_weights = parsed.result

\* C7 witness: a list rejected for the unknown name of its second entry.
C7_Witness ==
    /\ pc = "rejected"
    /\ Len(FLAGS.layer_loss_weights) = 2
    /\ IsEntry(FLAGS.layer_loss_weights[1])
    /\ FLAGS.layer_loss_weights[2] = <<"fc", ":", "1">>

\* C8: for every configuration that passes validation, the set of layers
\* used in loss aggregation is non-empty, a subset of the known
\* representation layers, and the same for every training step of the run.
C8_LayerSetNonEmptyKnownFixed ==
    Started =>
        /\ DictKeys(layers_and_weights) # {}
        /\ DictKeys(layers_and_weights) \subseteq RESNET_REPRESENTATION_LAYERS
        /\ layers_and_weights = layer_loss_weights

\* C9: every weight of a mapping accepted by validation is positive: no
\* training step aggregates a loss with weight 0 or a negative weight.
C9_WeightsPositive ==
    Count(log, {"train"}) >= 1 =>
        \A i \in 1..Len(layers_and_weights) :
            FracLess(Zero, layers_and_weights[i][2])

\* The value a schedule is to have at step s, given its value at the next step.
RampOK(v, vnext, s, final, warmup) ==
    /\ ~Truthy(warmup) => v = final
    /\ Truthy(warmup) =>
          /\ s = 0 => v = Zero
          /\ s < Value(warmup) =>
                v.num * final.den * Value(warmup) = final.num * s * v.den
          /\ s >= Value(warmup) => v = final
    /\ FracLeq(v, vnext)

\* C10: the schedule value at a step is the final value when warmup is unset
\* or 0; for warmup W > 0 it is 0 at step 0, final * step / W for
\* 0 <= step < W, final for step >= W, and never decreases from one step to
\* the next (final >= 0); for the dropout rate and the learning rate alike.
C10_ScheduleValues ==
    step >= 0 =>
        /\ RampOK(_dropout_rate(step), _dropout_rate(step + 1), step,
                  FLAGS.band_dropout_rate, FLAGS.band_dropout_rate_warmup_batches)
        /\ RampOK(_learning_rate(step), _learning_rate(step + 1), step,
                  FLAGS.learning_rate, FLAGS.learning_rate_warmup_batches)

\* C10 witness: half way up a warmup of two batches, the dropout rate in
\* effect is half its final value.
C10_Witness ==
    /\ pc = "loop"
    /\ step = 1
    /\ FLAGS.band_dropout_rate_warmup_batches = {2}
    /\ FLAGS.band_dropout_rate = Frac(3, 1)
    /\ dropout_rate = Frac(3, 2)
    /\ FLAGS.learning_rate_warmup_batches = {}

\* The training steps completed since the last flush, in order.
RECURSIVE SinceFlush(_)
SinceFlush(lg) ==
    IF lg = <<>> \/ Last(lg).op = "flush" THEN <<>>
    ELSE LET before == SinceFlush(SubSeq(lg, 1, Len(lg) - 1))
         IN  IF Last(lg).op = "train" THEN Append(before, Last(lg).step)
             ELSE before

\* C14: the step counter starts at -1, grows by exactly 1 once per batch
\* before that batch's training step, and never decreases or skips a value:
\* in a fresh run the k-th batch is trained at step k - 1, and the counter
\* always equals the number of batches taken from the stream minus one.
C14_StepCountsBatches ==
    /\ ~Started => step = -1
    /\ Started /\ last_ckpt = {} =>
          /\ step = Cardinality(Attempts) - 1
          /\ \A i \in Attempts :
                log[i].step = Cardinality({j \in Attempts : j <= i}) - 1
          /\ \A i \in 1..Len(log) : log[i].step <= step

\* C14 witness: the third batch of a fresh run has been trained, at step 2.
C14_Witness ==
    /\ last_ckpt = {}
    /\ Cardinality(Attempts) = 3
    /\ Last(log).op \in {"train", "save", "flush", "final_save"}
    /\ step = 2

\* C15: for every training step executed, the learning rate and the dropout
\* rate in effect equal the schedule value of the current step for their own
\* warmup length, with warmup recomputed in every iteration and without it the
\* final value at every step, the first included; a snapshot carries the rates
\* of its step.
C15_RatesFollowSchedule ==
    Started /\ step >= 0 =>
        /\ learning_rate = optional_warmup(step, FLAGS.learning_rate,
                                           FLAGS.learning_rate_warmup_batches)
        /\ dropout_rate = optional_warmup(step, FLAGS.band_dropout_rate,
                                          FLAGS.band_dropout_rate_warmup_batches)
        /\ ~Truthy(FLAGS.learning_rate_warmup_batches)
              => learning_rate = FLAGS.learning_rate
        /\ ~Truthy(FLAGS.band_dropout_rate_warmup_batches)
              => dropout_rate = FLAGS.band_dropout_rate
        /\ \A k \in 1..Len(store) :
              {store[k]} # last_ckpt /\ store[k].step >= 0 =>
                  /\ store[k].learning_rate
                        = optional_warmup(store[k].step, FLAGS.learning_rate,
                                          FLAGS.learning_rate_warmup_batches)
                  /\ store[k].dropout_rate
                        = optional_warmup(store[k].step, FLAGS.band_dropout_rate,
                                          FLAGS.band_dropout_rate_warmup_batches)

\* C15 witness: step 1 trained half way up a learning rate warmup of two
\* batches, with a dropout rate that has no warmup.
C15_Witness ==
    /\ pc = "loop"
    /\ step = 1
    /\ Last(log).step = 1
    /\ Last(log).op # "raise"
    /\ FLAGS.learning_rate_warmup_batches = {2}
    /\ FLAGS.learning_rate = Frac(3, 1)
    /\ learning_rate = Frac(3, 2)
    /\ FLAGS.band_dropout_rate_warmup_batches = {}
    /\ dropout_rate = FLAGS.band_dropout_rate

\* C16: with summary_frequency > 0, the iteration for step s flushes the
\* metrics if and only if s is a multiple of summary_frequency; a flush
\* reports the mean over exactly the training steps executed since the flush
\* before it (since the start for the first), and after a flush every
\* accumulator, total and per layer, loss and accuracy, is empty: each holds
\* exactly the steps trained since the last flush.
C16_FlushCadence ==
    FLAGS.summary_frequency > 0 /\ Started =>
        /\ \A i \in 1..Len(log) :
              (/\ log[i].op = "train"
               /\ ~(/\ i < Len(log)
                    /\ log[i + 1].op = "raise"
                    /\ log[i + 1].step = log[i].step)) =>
                  LET s == log[i].step
                      flushed == \E j \in (i + 1)..Len(log) :
                                    log[j].op = "flush" /\ log[j].step = s
                      multiple == \E k \in 0..s : k * FLAGS.summary_frequency = s
                  IN  flushed <=> multiple
        /\ \A j \in 1..Len(log) :
              log[j].op = "flush" =>
                  /\ log[j].n = Len(SinceFlush(SubSeq(log, 1, j - 1)))
                  /\ log[j].n >= 1
                  /\ \E i \in 1..(j - 1) :
                        log[i].op = "train" /\ log[i].step = log[j].step
        /\ pc \in {"loop", "done"} =>
              /\ metrics.total = SinceFlush(log)
              /\ Len(metrics.layers) = Len(layers_and_weights)
              /\ \A i \in 1..Len(metrics.layers) :
                    /\ metrics.layers[i].loss = SinceFlush(log)
                    /\ metrics.layers[i].accuracy = SinceFlush(log)

\* C16 witness: a second flush, over the two steps since the first, with two
\* layers.
C16_Witness ==
    /\ FLAGS.summary_frequency = 2
    /\ Len(layers_and_weights) = 2
    /\ \E j \in 1..Len(log) :
          log[j].op = "flush" /\ log[j].step = 2 /\ log[j].n = 2
    /\ metrics.total = <<>>

\* C11 as stated: the view _create_view returns has the shape of the input
\* batch, for every configuration of model tile size, data tile size, jitter
\* and dropout rate.
C11_ViewShapeEqualsInput ==
    view.phase = "returned" => view.result.shape = view.scene.shape

\* C11 amended: the view has shape (batch_size, model_tilesize,
\* model_tilesize, n_bands), whatever the jitter and the dropout rate: the
\* shape of the input batch exactly when model_tilesize = data_tilesize, a
\* crop of the batch inside its bounds when model_tilesize is smaller, and no
\* view at all (the crop fails) when model_tilesize is larger.
C11_ViewHasModelShape ==
    /\ view.phase = "returned" =>
          /\ view.result.shape = <<FLAGS.batch_size, FLAGS.model_tilesize,
                                   FLAGS.model_tilesize, FLAGS.n_bands>>
          /\ FLAGS.model_tilesize <= FLAGS.data_tilesize
          /\ (view.result.shape = view.scene.shape
                <=> FLAGS.model_tilesize = FLAGS.data_tilesize)
          /\ \A i \in 1..4 :
                view.result.offset[i] + view.result.shape[i] <= view.scene.shape[i]
    /\ view.phase = "raised" => FLAGS.model_tilesize > FLAGS.data_tilesize

\* C11 witness: a 1 x 1 view cropped from the far corner of a batch of
\* 3 x 3 tiles, with both jitters and band dropout applied.
C11_Witness ==
    /\ view.phase = "returned"
    /\ view.dropout_rate = Half
    /\ view.scene.shape = <<2, 3, 3, 2>>
    /\ view.result.shape = <<2, 1, 1, 2>>
    /\ view.result.offset = <<0, 2, 2, 0>>
    /\ view.result.ops = <<"crop", "brightness", "contrast", "band_dropout">>

\* No row and no column of the matrix takes its maximum twice.
SingleMaxima(similarities) ==
    \A i \in DOMAIN similarities :
        /\ Cardinality(MaxColumns(similarities, i)) = 1
        /\ Cardinality(MaxRows(similarities, i)) = 1

\* C12 as stated: the accuracy is the mean over the rows i of the similarity
\* matrix of the indicator that the column holding the maximum of row i
\* equals i; stated for the matrices whose maxima are single, where the
\* outcome of argmax is fixed.
C12_AccuracyOverRows ==
    loss.phase = "returned" /\ SingleMaxima(loss.similarities) =>
        \E p \in argmax_axis_1(loss.similarities) :
            loss.batch_accuracy = Accuracy(p)

\* C12 amended: the accuracy is the mean over the columns j of the similarity
\* matrix (j indexes view 2, rows index view 1) of the indicator that the row
\* holding the maximum of column j equals j, where the similarity matrix is
\* the matrix of dot products divided by the temperature.
C12_AccuracyOverColumns ==
    loss.phase = "returned" =>
        /\ \A i, j \in Indices :
              loss.similarities[i][j]
                 = FracDiv(Frac(loss.flat_1[i] * loss.flat_2[j], 1),
                           FLAGS.softmax_temperature)
        /\ \A j \in Indices :
              \A k \in Indices :
                 FracLeq(loss.similarities[k][j],
                         loss.similarities[loss.predictions[j]][j])
        /\ loss.batch_accuracy
              = Frac(Cardinality({j \in Indices : loss.predictions[j] = j}),
                     FLAGS.batch_size)

\* C12 witness: every row has its single maximum on the diagonal while
\* column 0 has its single maximum off it, and the accuracy returned is 1/2.
C12_Witness ==
    /\ loss.phase = "returned"
    /\ FLAGS.batch_size = 2
    /\ \A i \in Indices : MaxColumns(loss.similarities, i) = {i}
    /\ MaxRows(loss.similarities, 0) = {1}
    /\ MaxRows(loss.similarities, 1) = {1}
    /\ loss.batch_accuracy = Half

\* C13 as stated: with pca_preprocess_dims = -1 a call that gets as far as
\* the step before t-SNE applies no PCA there and hands t-SNE the
\* representations unchanged.
C13_MinusOneSkipsPCA ==
    (/\ FLAGS.pca_preprocess_dims = 0 - 1
     /\ projection.stage \in {"pre_tsne_pca", "done"}) =>
        /\ projection.phase = "returned"
        /\ projection.tsne_input = projection.representations

\* C17 as stated: after a pass of either experiment the samples fed to
\* training, to validation and to testing are pairwise disjoint.
C17_SplitsDisjoint ==
    experiment.phase \in {"loop", "returned"} =>
        /\ experiment.train \cap experiment.val = {}
        /\ experiment.train \cap experiment.test = {}
        /\ experiment.val \cap experiment.test = {}

====
